---- MODULE Spec2Model ----
(***************************************************************************)
(* Model of the narrated-slideshow pipeline of video_generator.py:        *)
(* VideoGenerator.generate_slideshow_video_structured and                 *)
(* VideoGenerator.text_to_speech, then generate_slideshow_video, the       *)
(* script parsers, the slide text for speech, word wrap, the Ken Burns     *)
(* frame, the frame count and the background provider, each in its own     *)
(* specification.                                                          *)
(*                                                                         *)
(* Durations are Python floats in seconds.  They are represented here as   *)
(* integers counting 1/600 s, so that 0.1 s, 0.5 s and the division of a   *)
(* total by a slide count of up to 6 are all exact.                        *)
(***************************************************************************)
EXTENDS Integers, Sequences, FiniteSets, TLC

\* ---------------------------------------------------------------- bounds
MaxSlides == 3
MaxLines == 3
MaxNarration == 3
MaxBullets == 2
MaxText == 5
MaxDurationSteps == 40
MaxProviderCalls == 3

\* ------------------------------------------------------ number helpers
Sec(s) == s * 600
Tenths(d) == d * 60

Max(a, b) == IF a >= b THEN a ELSE b
Min(a, b) == IF a <= b THEN a ELSE b

RECURSIVE SumSeq(_)
SumSeq(s) == IF s = <<>> THEN 0 ELSE Head(s) + SumSeq(Tail(s))

RECURSIVE Insert(_, _)
Insert(x, s) ==
    IF s = <<>> THEN <<x>>
    ELSE IF x <= Head(s) THEN <<x>> \o s
    ELSE <<Head(s)>> \o Insert(x, Tail(s))

RECURSIVE Sorted(_)
Sorted(s) == IF s = <<>> THEN <<>> ELSE Insert(Head(s), Sorted(Tail(s)))

None == -1

\* ------------------------------------------------------ input domains
SecondsPerSlideValues == {Sec(6), Sec(300)}
DesiredTotalValues == {None, Sec(700)}
\* meta.info.length as reported by mutagen for a synthesized clip
ProbedLengths == {0, Sec(2), Sec(400)}

\* ------------------------------------------------------ temporary files
AudioFile(i) == <<"audio", i>>
SilentFile(i) == <<"silent", i>>
AvFile(i) == <<"av", i>>
ListFile == <<"list", 0>>

VARIABLES
    num_slides,                 \* len(slides)
    seconds_per_slide,          \* argument
    desired_total_seconds,      \* argument (None when absent)
    eleven_available,           \* module flag: elevenlabs import succeeded
    ELEVENLABS_API_KEY,         \* config: key is non-empty
    MUTAGEN_AVAILABLE,          \* module flag
    IMAGEIO_FFMPEG_AVAILABLE,   \* module flag
    ffmpeg_exe_found,           \* imageio_ffmpeg.get_ffmpeg_exe() finds a binary
    pc,                         \* position in generate_slideshow_video_structured
    idx,                        \* loop index (1-based)
    temp_silent_videos,
    temp_audios,
    temp_av_videos,
    audio_durations,
    uniform_seconds_per_slide,
    rendered,                   \* per slide: duration the frames were written for
    mux_t,                      \* per slide: value of the -t argument of the mux command
    mux_rc,                     \* per slide: outcome of the mux subprocess
    concat_rc,                  \* outcome of the concat subprocess ("none" before it ran)
    manifest,                   \* lines written to the concat list file
    output,                     \* file at output_path: "absent", "partial", "complete"
    fs,                         \* temporary files present on disk
    created,                    \* every temporary file created in this run
    unlinked,                   \* temporary files whose deletion was attempted
    tts,                        \* the running text_to_speech call (locals and provider calls)
    tts_calls,                  \* number of text_to_speech invocations so far
    err,                        \* exception that reached the caller ("none" if none)
    probed,                     \* per slide: dur after the probe (None when it gave nothing)
    mux_inputs,                 \* per slide: the two -i arguments of the mux command
    sv,                         \* a run of generate_slideshow_video
    parse,                      \* an application of the script parsers
    content,                    \* an application of _create_enhanced_slide_content
    wrap,                       \* an application of _wrap_text_to_width
    kb,                         \* an application of _ken_burns_frame
    fr,                         \* the frame count computed for one slide
    bg,                         \* the background provider: its caches and the images handed out
    sel                         \* the backgrounds chosen and drawn by a run

vars == <<num_slides, seconds_per_slide, desired_total_seconds, eleven_available,
          ELEVENLABS_API_KEY, MUTAGEN_AVAILABLE, IMAGEIO_FFMPEG_AVAILABLE,
          ffmpeg_exe_found, pc, idx,
          temp_silent_videos, temp_audios, temp_av_videos, audio_durations,
          uniform_seconds_per_slide, rendered, mux_t, mux_rc, concat_rc, manifest,
          output, fs, created, unlinked, tts, tts_calls, err, probed, mux_inputs,
          sv, parse, content, wrap, kb, fr, bg, sel>>

\* the applications of the frame helpers and of the background provider
pure == <<wrap, kb, fr, bg, sel>>

\* state of the other operations, untouched by generate_slideshow_video_structured
aside == <<sv, parse, content, pure>>

inputs == <<num_slides, seconds_per_slide, desired_total_seconds, eleven_available,
            ELEVENLABS_API_KEY, MUTAGEN_AVAILABLE, IMAGEIO_FFMPEG_AVAILABLE,
            ffmpeg_exe_found>>

\* generate_slideshow_video: not called, and just called (MOVIEPY_AVAILABLE is the
\* module flag it and its helpers consult)
SvIdle == [pc |-> "idle"]

SvCalled == [pc : {"audio"}, MOVIEPY_AVAILABLE : BOOLEAN, audio_segments : {<<>>},
             total_duration : {0}, rendered : {<<>>}, combined_audio : {<<"none", 0>>},
             files : {{}}, output : {"absent"}, result : {<<"none", 0>>}, err : {"none"},
             audio_starts : {<<>>}, audio_total : {0}, output_duration : {None}]
ParseIdle == [pc |-> "idle", script |-> <<>>, markdown |-> <<>>, explainer |-> <<>>]
ContentIdle == [pc |-> "idle",
                slide |-> [title |-> <<>>, bullets |-> <<>>, narration |-> <<>>,
                           subtopics |-> <<>>],
                text |-> <<>>]

WrapIdle == [pc |-> "idle", text |-> <<>>, font_scale |-> 1, max_width_px |-> 1,
             lines |-> <<>>]
KbIdle == [pc |-> "idle", width |-> 0, height |-> 0, w |-> 0, h |-> 0, t |-> 0, total |-> 0,
           rw |-> 0, rh |-> 0, x_offset |-> 0, y_offset |-> 0, crop_w |-> 0, crop_h |-> 0,
           out_w |-> 0, out_h |-> 0]
FrIdle == [pc |-> "idle", entry |-> "none", duration |-> 0, fps |-> 1, frames |-> 0]
BgIdle == [pc |-> "idle", heap |-> <<>>, topic_backgrounds |-> <<>>, handed_out |-> {},
           log |-> <<>>]
SelIdle == [pc |-> "idle", entry |-> "none", num_slides |-> 0, topic |-> FALSE,
            topic_cached |-> FALSE, static_present |-> FALSE, default_background |-> FALSE,
            style |-> FALSE, topic_category |-> "default", loaded_images |-> <<>>,
            chosen |-> <<>>, written |-> <<>>]

PureIdle ==
    /\ wrap = WrapIdle
    /\ kb = KbIdle
    /\ fr = FrIdle
    /\ bg = BgIdle
    /\ sel = SelIdle

NoCall == [text |-> 0, output_path |-> <<"none", 0>>,
           el_calls |-> 0, el_text |-> 0, el_path |-> <<"none", 0>>, el_result |-> "none",
           gtts_calls |-> 0, gtts_text |-> 0, gtts_path |-> <<"none", 0>>, gtts_result |-> "none",
           returned |-> <<"none", 0>>]

Init ==
    /\ num_slides \in 1..MaxSlides
    /\ seconds_per_slide \in SecondsPerSlideValues
    /\ desired_total_seconds \in DesiredTotalValues
    /\ eleven_available \in BOOLEAN
    /\ ELEVENLABS_API_KEY \in BOOLEAN
    /\ MUTAGEN_AVAILABLE \in BOOLEAN
    /\ IMAGEIO_FFMPEG_AVAILABLE \in BOOLEAN
    /\ ffmpeg_exe_found \in BOOLEAN
    /\ \/ pc = "synthesize" /\ sv = SvIdle
       \/ pc = "idle" /\ sv \in SvCalled /\ desired_total_seconds = None
    /\ idx = 1
    /\ temp_silent_videos = <<>>
    /\ temp_audios = <<>>
    /\ temp_av_videos = <<>>
    /\ audio_durations = <<>>
    /\ uniform_seconds_per_slide = 0
    /\ rendered = <<>>
    /\ mux_t = <<>>
    /\ mux_rc = <<>>
    /\ concat_rc = "none"
    /\ manifest = <<>>
    /\ output = "absent"
    /\ fs = {}
    /\ created = {}
    /\ unlinked = {}
    /\ tts = NoCall
    /\ tts_calls = 0
    /\ err = "none"
    /\ probed = <<>>
    /\ mux_inputs = <<>>
    /\ PureIdle
    /\ parse = ParseIdle
    /\ content = ContentIdle

\* ------------------------------------------------------ text_to_speech
\* The text handed to text_to_speech for slide i (_create_enhanced_slide_content):
\* one distinct text per slide.
SlideContent(i) == 100 + i

\* The credential is not consulted before the premium provider is tried.
TtsEnter_IgnoresCredential ==
    /\ pc = "synthesize"
    /\ tts' = [NoCall EXCEPT !.text = SlideContent(idx), !.output_path = AudioFile(idx)]
    /\ tts_calls' = tts_calls + 1
    /\ fs' = fs \cup {AudioFile(idx)}
    /\ created' = created \cup {AudioFile(idx)}
    /\ pc' = IF eleven_available THEN "elevenlabs" ELSE "gtts"
    /\ UNCHANGED <<inputs, aside, probed, mux_inputs, idx, temp_silent_videos, temp_audios, temp_av_videos,
                   audio_durations, uniform_seconds_per_slide, rendered, mux_t, mux_rc,
                   concat_rc, manifest, output, unlinked, err>>

\* Entry of text_to_speech(slide_content): output_path is None, so a temporary
\* .mp3 is created; then the provider is chosen.
TtsEnter ==
    /\ pc = "synthesize"
    /\ tts' = [NoCall EXCEPT !.text = SlideContent(idx), !.output_path = AudioFile(idx)]
    /\ tts_calls' = tts_calls + 1
    /\ fs' = fs \cup {AudioFile(idx)}
    /\ created' = created \cup {AudioFile(idx)}
    /\ pc' = IF eleven_available /\ ELEVENLABS_API_KEY THEN "elevenlabs" ELSE "gtts"
    /\ UNCHANGED <<inputs, aside, probed, mux_inputs, idx, temp_silent_videos, temp_audios, temp_av_videos,
                   audio_durations, uniform_seconds_per_slide, rendered, mux_t, mux_rc,
                   concat_rc, manifest, output, unlinked, err>>

\* An exception of the premium provider is re-raised instead of falling back.
ElevenLabs_Propagates ==
    /\ pc = "elevenlabs"
    /\ \E ok \in BOOLEAN :
        /\ tts' = [tts EXCEPT !.el_calls = @ + 1, !.el_text = tts.text,
                              !.el_path = tts.output_path,
                              !.el_result = IF ok THEN "ok" ELSE "raise",
                              !.returned = IF ok THEN tts.output_path ELSE @]
        /\ pc' = IF ok THEN "probe" ELSE "raised"
        /\ err' = IF ok THEN err ELSE "tts"
    /\ UNCHANGED <<inputs, aside, probed, mux_inputs, idx, temp_silent_videos, temp_audios, temp_av_videos,
                   audio_durations, uniform_seconds_per_slide, rendered, mux_t, mux_rc,
                   concat_rc, manifest, output, fs, created, unlinked, tts_calls>>

\* el_generate / el_save inside the inner try: success returns output_path,
\* any exception is logged and control falls through to gTTS.
ElevenLabs ==
    /\ pc = "elevenlabs"
    /\ \E ok \in BOOLEAN :
        /\ tts' = [tts EXCEPT !.el_calls = @ + 1, !.el_text = tts.text,
                              !.el_path = tts.output_path,
                              !.el_result = IF ok THEN "ok" ELSE "raise",
                              !.returned = IF ok THEN tts.output_path ELSE @]
        /\ pc' = IF ok THEN "probe" ELSE "gtts"
    /\ UNCHANGED <<inputs, aside, probed, mux_inputs, idx, temp_silent_videos, temp_audios, temp_av_videos,
                   audio_durations, uniform_seconds_per_slide, rendered, mux_t, mux_rc,
                   concat_rc, manifest, output, fs, created, unlinked, tts_calls, err>>

\* A failure of the fallback provider is swallowed and the slide goes on with
\* whatever is at output_path.
GTTS_SwallowsFailure ==
    /\ pc = "gtts"
    /\ \E ok \in BOOLEAN :
        /\ tts' = [tts EXCEPT !.gtts_calls = @ + 1, !.gtts_text = tts.text,
                              !.gtts_path = tts.output_path,
                              !.gtts_result = IF ok THEN "ok" ELSE "raise",
                              !.returned = tts.output_path]
        /\ pc' = "probe"
        /\ err' = err
    /\ UNCHANGED <<inputs, aside, probed, mux_inputs, idx, temp_silent_videos, temp_audios, temp_av_videos,
                   audio_durations, uniform_seconds_per_slide, rendered, mux_t, mux_rc,
                   concat_rc, manifest, output, fs, created, unlinked, tts_calls>>

\* gTTS(text=text).save(output_path): success returns output_path, an exception
\* is logged by the outer handler and re-raised to the caller.
GTTS ==
    /\ pc = "gtts"
    /\ \E ok \in BOOLEAN :
        /\ tts' = [tts EXCEPT !.gtts_calls = @ + 1, !.gtts_text = tts.text,
                              !.gtts_path = tts.output_path,
                              !.gtts_result = IF ok THEN "ok" ELSE "raise",
                              !.returned = IF ok THEN tts.output_path ELSE @]
        /\ pc' = IF ok THEN "probe" ELSE "raised"
        /\ err' = IF ok THEN err ELSE "tts"
    /\ UNCHANGED <<inputs, aside, probed, mux_inputs, idx, temp_silent_videos, temp_audios, temp_av_videos,
                   audio_durations, uniform_seconds_per_slide, rendered, mux_t, mux_rc,
                   concat_rc, manifest, output, fs, created, unlinked, tts_calls>>

\* ------------------------------------------------------ first loop: probe
\* dur = float(max(0.1, meta.info.length)), or None when mutagen is absent or raises
ProbedDuration(length) == Max(Tenths(1), length)

\* float(dur or seconds_per_slide)
RecordedDuration(dur) == IF dur = None \/ dur = 0 THEN seconds_per_slide ELSE dur

\* The first loop stops one slide early.
Probe_SkipsLastSlide ==
    /\ pc = "probe"
    /\ temp_audios' = Append(temp_audios, tts.returned)
    /\ \E dur \in IF MUTAGEN_AVAILABLE
                  THEN {None} \cup {ProbedDuration(l) : l \in ProbedLengths}
                  ELSE {None} :
        /\ probed' = Append(probed, dur)
        /\ audio_durations' = Append(audio_durations, RecordedDuration(dur))
    /\ tts' = NoCall
    /\ idx' = IF idx + 1 < num_slides THEN idx + 1 ELSE 1
    /\ pc' = IF idx + 1 < num_slides THEN "synthesize" ELSE "decide"
    /\ UNCHANGED <<inputs, aside, mux_inputs, temp_silent_videos, temp_av_videos,
                   uniform_seconds_per_slide, rendered, mux_t, mux_rc,
                   concat_rc, manifest, output, fs, created, unlinked, tts_calls, err>>

Probe ==
    /\ pc = "probe"
    /\ temp_audios' = Append(temp_audios, tts.returned)
    /\ \E dur \in IF MUTAGEN_AVAILABLE
                  THEN {None} \cup {ProbedDuration(l) : l \in ProbedLengths}
                  ELSE {None} :
        /\ probed' = Append(probed, dur)
        /\ audio_durations' = Append(audio_durations, RecordedDuration(dur))
    /\ tts' = NoCall
    /\ idx' = IF idx < num_slides THEN idx + 1 ELSE 1
    /\ pc' = IF idx < num_slides THEN "synthesize" ELSE "decide"
    /\ UNCHANGED <<inputs, aside, mux_inputs, temp_silent_videos, temp_av_videos,
                   uniform_seconds_per_slide, rendered, mux_t, mux_rc,
                   concat_rc, manifest, output, fs, created, unlinked, tts_calls, err>>

\* ------------------------------------------------------ duration policy
\* desired_total: clamp of the requested total, or of sum(max(6.0, d + 1.0)), to 240..600 s
BaseTotal(durs) == SumSeq([i \in 1..Len(durs) |-> Max(Sec(6), durs[i] + Sec(1))])

DesiredTotal(durs) ==
    IF desired_total_seconds = None
    THEN Max(Sec(240), Min(Sec(600), BaseTotal(durs)))
    ELSE Max(Sec(240), Min(Sec(600), desired_total_seconds))

\* sorted(audio_durations)[len(audio_durations)//2]
MedianAudio(durs) ==
    IF durs = <<>> THEN seconds_per_slide ELSE Sorted(durs)[(Len(durs) \div 2) + 1]

\* max(median_audio + 0.5, desired_total / float(num_slides))
UniformSecondsPerSlide(durs) ==
    Max(MedianAudio(durs) + Tenths(5), DesiredTotal(durs) \div Max(1, Len(durs)))

Decide ==
    /\ pc = "decide"
    /\ uniform_seconds_per_slide' = UniformSecondsPerSlide(audio_durations)
    /\ pc' = "frames"
    /\ UNCHANGED <<inputs, aside, probed, mux_inputs, idx, temp_silent_videos, temp_audios, temp_av_videos,
                   audio_durations, rendered, mux_t, mux_rc, concat_rc, manifest,
                   output, fs, created, unlinked, tts, tts_calls, err>>

\* ------------------------------------------------------ second loop
Duration_UniformOnly(i) == uniform_seconds_per_slide

Duration_ConfiguredMinimum(i) == Max(seconds_per_slide, audio_durations[i])

Duration_AudioOnly(i) == audio_durations[i]

\* duration = max(uniform_seconds_per_slide, audio_durations[idx])
Duration(i) == Max(uniform_seconds_per_slide, audio_durations[i])

\* The missing-encoder branch does not raise: the loop goes on to the next slide.
Frames_ContinuesWithoutEncoder ==
    /\ pc = "frames"
    /\ fs' = fs \cup {SilentFile(idx)}
    /\ created' = created \cup {SilentFile(idx)}
    /\ rendered' = Append(rendered, Duration(idx))
    /\ temp_silent_videos' = Append(temp_silent_videos, SilentFile(idx))
    /\ pc' = CASE IMAGEIO_FFMPEG_AVAILABLE -> "mux"
                [] idx < num_slides -> "frames"
                [] OTHER -> "concat"
    /\ idx' = IF ~IMAGEIO_FFMPEG_AVAILABLE /\ idx < num_slides THEN idx + 1 ELSE idx
    /\ err' = err
    /\ UNCHANGED <<inputs, aside, probed, mux_inputs, temp_audios, temp_av_videos, audio_durations,
                   uniform_seconds_per_slide, mux_t, mux_rc, concat_rc, manifest,
                   output, unlinked, tts, tts_calls>>

\* The encoder check comes before the frames of the slide are written.
Frames_ChecksEncoderFirst ==
    /\ pc = "frames"
    /\ fs' = IF IMAGEIO_FFMPEG_AVAILABLE THEN fs \cup {SilentFile(idx)} ELSE fs
    /\ created' = IF IMAGEIO_FFMPEG_AVAILABLE THEN created \cup {SilentFile(idx)} ELSE created
    /\ rendered' = IF IMAGEIO_FFMPEG_AVAILABLE THEN Append(rendered, Duration(idx)) ELSE rendered
    /\ temp_silent_videos' = IF IMAGEIO_FFMPEG_AVAILABLE
                             THEN Append(temp_silent_videos, SilentFile(idx))
                             ELSE temp_silent_videos
    /\ pc' = IF IMAGEIO_FFMPEG_AVAILABLE THEN "mux" ELSE "raised"
    /\ err' = IF IMAGEIO_FFMPEG_AVAILABLE THEN err ELSE "ffmpeg_unavailable"
    /\ UNCHANGED <<inputs, aside, probed, mux_inputs, idx, temp_audios, temp_av_videos, audio_durations,
                   uniform_seconds_per_slide, mux_t, mux_rc, concat_rc, manifest,
                   output, unlinked, tts, tts_calls>>

\* Writes the silent video of slide idx for Duration(idx) seconds, then takes
\* the branch on IMAGEIO_FFMPEG_AVAILABLE.
Frames ==
    /\ pc = "frames"
    /\ fs' = fs \cup {SilentFile(idx)}
    /\ created' = created \cup {SilentFile(idx)}
    /\ rendered' = Append(rendered, Duration(idx))
    /\ temp_silent_videos' = Append(temp_silent_videos, SilentFile(idx))
    /\ pc' = IF IMAGEIO_FFMPEG_AVAILABLE THEN "mux" ELSE "raised"
    /\ err' = IF IMAGEIO_FFMPEG_AVAILABLE THEN err ELSE "ffmpeg_unavailable"
    /\ UNCHANGED <<inputs, aside, probed, mux_inputs, idx, temp_audios, temp_av_videos, audio_durations,
                   uniform_seconds_per_slide, mux_t, mux_rc, concat_rc, manifest,
                   output, unlinked, tts, tts_calls>>

MuxCommandInputs_FirstAudio(i) == <<temp_silent_videos[i], temp_audios[1]>>

\* "-i", temp_video_path, "-i", temp_audios[idx]
MuxCommandInputs(i) == <<temp_silent_videos[i], temp_audios[i]>>

MuxOutcomes == {"zero", "nonzero", "timeout"}

\* get_ffmpeg_exe() raises RuntimeError when no binary is found: nothing of the
\* mux step has happened yet.
MuxExeMissing ==
    /\ pc' = "raised"
    /\ err' = "ffmpeg_exe_missing"
    /\ UNCHANGED <<inputs, aside, probed, mux_inputs, idx, temp_silent_videos, temp_audios, temp_av_videos,
                   audio_durations, uniform_seconds_per_slide, rendered, mux_t, mux_rc,
                   concat_rc, manifest, output, fs, created, unlinked, tts, tts_calls>>

\* A timed-out mux is treated like a non-zero exit.
Mux_TimeoutFallsBack ==
    /\ pc = "mux"
    /\ IF ~ffmpeg_exe_found THEN MuxExeMissing ELSE
        /\ fs' = fs \cup {AvFile(idx)}
        /\ created' = created \cup {AvFile(idx)}
        /\ mux_t' = Append(mux_t, Duration(idx))
        /\ mux_inputs' = Append(mux_inputs, MuxCommandInputs(idx))
        /\ \E rc \in MuxOutcomes :
            /\ mux_rc' = Append(mux_rc, rc)
            /\ temp_av_videos' = Append(temp_av_videos,
                                        IF rc = "zero" THEN AvFile(idx) ELSE SilentFile(idx))
            /\ idx' = IF idx < num_slides THEN idx + 1 ELSE idx
            /\ pc' = IF idx < num_slides THEN "frames" ELSE "concat"
            /\ err' = err
        /\ UNCHANGED <<inputs, aside, probed, temp_silent_videos, temp_audios, audio_durations,
                       uniform_seconds_per_slide, rendered, concat_rc, manifest,
                       output, unlinked, tts, tts_calls>>

\* Looks up the ffmpeg binary, creates av_out, runs ffmpeg with -t duration and
\* timeout=60.  Return code 0 records av_out; a non-zero code records the silent
\* video instead; subprocess.TimeoutExpired propagates to the caller.
Mux ==
    /\ pc = "mux"
    /\ IF ~ffmpeg_exe_found THEN MuxExeMissing ELSE
        /\ fs' = fs \cup {AvFile(idx)}
        /\ created' = created \cup {AvFile(idx)}
        /\ mux_t' = Append(mux_t, Duration(idx))
        /\ mux_inputs' = Append(mux_inputs, MuxCommandInputs(idx))
        /\ \E rc \in MuxOutcomes :
            /\ mux_rc' = Append(mux_rc, rc)
            /\ temp_av_videos' = CASE rc = "zero" -> Append(temp_av_videos, AvFile(idx))
                                   [] rc = "nonzero" -> Append(temp_av_videos, SilentFile(idx))
                                   [] OTHER -> temp_av_videos
            /\ idx' = IF rc # "timeout" /\ idx < num_slides THEN idx + 1 ELSE idx
            /\ pc' = CASE rc = "timeout" -> "raised"
                       [] idx < num_slides -> "frames"
                       [] OTHER -> "concat"
            /\ err' = IF rc = "timeout" THEN "mux_timeout" ELSE err
        /\ UNCHANGED <<inputs, aside, probed, temp_silent_videos, temp_audios, audio_durations,
                       uniform_seconds_per_slide, rendered, concat_rc, manifest,
                       output, unlinked, tts, tts_calls>>

\* ------------------------------------------------------ concatenation
ConcatOutcomes == {"zero", "nonzero", "timeout"}

\* The return code of the concat run is not inspected.
Concat_IgnoresReturnCode ==
    /\ pc = "concat"
    /\ fs' = fs \cup {ListFile}
    /\ created' = created \cup {ListFile}
    /\ manifest' = temp_av_videos
    /\ \E rc \in ConcatOutcomes :
        /\ concat_rc' = rc
        /\ output' \in IF rc = "zero" THEN {"complete"} ELSE {"absent", "partial"}
        /\ pc' = "cleanup"
        /\ err' = err
    /\ UNCHANGED <<inputs, aside, probed, mux_inputs, idx, temp_silent_videos, temp_audios, temp_av_videos,
                   audio_durations, uniform_seconds_per_slide, rendered, mux_t, mux_rc,
                   unlinked, tts, tts_calls>>

\* Writes the list file, runs ffmpeg -f concat with timeout=120.  A non-zero
\* return code raises RuntimeError, a timeout raises subprocess.TimeoutExpired;
\* what a failed or killed encoder leaves at output_path is not determined.
Concat ==
    /\ pc = "concat"
    /\ fs' = fs \cup {ListFile}
    /\ created' = created \cup {ListFile}
    /\ manifest' = temp_av_videos
    /\ \E rc \in ConcatOutcomes :
        /\ concat_rc' = rc
        /\ output' \in IF rc = "zero" THEN {"complete"} ELSE {"absent", "partial"}
        /\ pc' = IF rc = "zero" THEN "cleanup" ELSE "raised"
        /\ err' = CASE rc = "zero" -> err
                    [] rc = "nonzero" -> "concat_failed"
                    [] OTHER -> "concat_timeout"
    /\ UNCHANGED <<inputs, aside, probed, mux_inputs, idx, temp_silent_videos, temp_audios, temp_av_videos,
                   audio_durations, uniform_seconds_per_slide, rendered, mux_t, mux_rc,
                   unlinked, tts, tts_calls>>

RECURSIVE Range(_)
Range(s) == IF s = <<>> THEN {} ELSE {Head(s)} \cup Range(Tail(s))

\* The audio files are left out of the unlink loop.
Cleanup_SkipsAudios ==
    /\ pc = "cleanup"
    /\ LET listed == Range(temp_silent_videos \o temp_av_videos)
       IN /\ unlinked' = unlinked \cup (listed \cap fs) \cup {ListFile}
          /\ fs' = (fs \ listed) \ {ListFile}
    /\ pc' = "returned"
    /\ UNCHANGED <<inputs, aside, probed, mux_inputs, idx, temp_silent_videos, temp_audios, temp_av_videos,
                   audio_durations, uniform_seconds_per_slide, rendered, mux_t, mux_rc,
                   concat_rc, manifest, output, created, tts, tts_calls, err>>

\* for p in temp_silent_videos + temp_audios + temp_av_videos: unlink if it
\* exists; then unlink list_path; return output_path.
Cleanup ==
    /\ pc = "cleanup"
    /\ LET listed == Range(temp_silent_videos \o temp_audios \o temp_av_videos)
       IN /\ unlinked' = unlinked \cup (listed \cap fs) \cup {ListFile}
          /\ fs' = (fs \ listed) \ {ListFile}
    /\ pc' = "returned"
    /\ UNCHANGED <<inputs, aside, probed, mux_inputs, idx, temp_silent_videos, temp_audios, temp_av_videos,
                   audio_durations, uniform_seconds_per_slide, rendered, mux_t, mux_rc,
                   concat_rc, manifest, output, created, tts, tts_calls, err>>

\* frames = int(duration * fps) and frames_for_slide = int(slide_duration * fps):
\* duration in 1/600 s, truncated towards zero
FrameCount(duration, fps) == (duration * fps) \div 600

\* ====================================================== generate_slideshow_video
\* File sizes (bytes) seen by os.path.getsize when no metadata reader is available
FileSizes == {20480, 819200}

\* file_size / (16 * 1024 / 8), in seconds
EstimatedDuration(file_size) == (file_size * 600) \div 2048

\* What the reader hands to _get_audio_duration: None when it raises, else the
\* clip length (MoviePy, mutagen) or the file size (no reader).
SvReadings ==
    {None} \cup (IF sv.MOVIEPY_AVAILABLE \/ MUTAGEN_AVAILABLE THEN ProbedLengths ELSE FileSizes)

GetAudioDuration_NoFloor(reading) ==
    CASE reading = None -> Sec(20)
      [] sv.MOVIEPY_AVAILABLE -> reading
      [] MUTAGEN_AVAILABLE -> reading
      [] OTHER -> Max(Sec(20), EstimatedDuration(reading))

\* _get_audio_duration
GetAudioDuration(reading) ==
    CASE reading = None -> Sec(20)
      [] sv.MOVIEPY_AVAILABLE -> Max(Tenths(1), reading)
      [] MUTAGEN_AVAILABLE -> Max(Tenths(1), reading)
      [] OTHER -> Max(Sec(20), EstimatedDuration(reading))

\* How long the synthesized clip really plays: what a reader that worked reported,
\* else any of the lengths a narration can have
NarrationLengths == {Sec(2), Sec(400)}
ClipLengths(reading) ==
    IF reading # None /\ (sv.MOVIEPY_AVAILABLE \/ MUTAGEN_AVAILABLE) THEN {reading}
    ELSE NarrationLengths

\* fps = fps or 30
SvFps == 30

\* concatenate_audioclips: clip i starts where clip i-1 ends
RECURSIVE ConcatenatedStarts(_, _)
ConcatenatedStarts(segments, at) ==
    IF segments = <<>> THEN <<>>
    ELSE <<at>> \o ConcatenatedStarts(Tail(segments), at + Head(segments).length)

\* the first segment's file alone: the later narrations are not in the audio
FirstOnlyStarts(segments) == [i \in 1..Len(segments) |-> IF i = 1 THEN 0 ELSE None]

RECURSIVE TotalLength(_)
TotalLength(segments) ==
    IF segments = <<>> THEN 0 ELSE Head(segments).length + TotalLength(Tail(segments))

\* the play time of the frames written for the given slide durations
RECURSIVE VideoLength(_)
VideoLength(durations) ==
    IF durations = <<>> THEN 0
    ELSE (FrameCount(Head(durations), SvFps) * 600) \div SvFps + VideoLength(Tail(durations))

\* -shortest: the output ends with the shorter of the two inputs
Shortest(video_length, audio_length) == Min(video_length, audio_length)

SvAudioFile(i) == <<"sv_audio", i>>
SvTempVideo == <<"sv_video", 0>>
SvCombinedAudio == <<"sv_combined", 0>>
OutputPath == <<"output_path", 0>>

pipeline == <<inputs, pc, idx, temp_silent_videos, temp_audios, temp_av_videos,
              audio_durations, uniform_seconds_per_slide, rendered, mux_t, mux_rc,
              concat_rc, manifest, output, fs, created, unlinked, tts, tts_calls, err,
              probed, mux_inputs>>

\* First loop, one slide: text_to_speech (which may raise), _get_audio_duration, the
\* 20 s floor, and the segment record with its start_time.
SvSynthesize ==
    /\ sv.pc = "audio"
    /\ LET i == Len(sv.audio_segments) + 1 IN
       \E ok \in BOOLEAN :
         IF ~ok
         THEN sv' = [sv EXCEPT !.pc = "raised", !.err = "tts",
                               !.files = @ \cup {SvAudioFile(i)}]
         ELSE \E reading \in SvReadings :
              \E length \in ClipLengths(reading) :
                LET got == GetAudioDuration(reading)
                    audio_duration == IF got < Sec(20) THEN Sec(20) ELSE got
                    seg == [path |-> SvAudioFile(i), reading |-> reading, probed |-> got,
                            duration |-> audio_duration, start_time |-> sv.total_duration,
                            length |-> length]
                IN sv' = [sv EXCEPT !.audio_segments = Append(@, seg),
                                    !.total_duration = @ + audio_duration,
                                    !.files = @ \cup {SvAudioFile(i)},
                                    !.pc = IF i < num_slides THEN "audio" ELSE "frames"]
    /\ UNCHANGED <<pipeline, parse, content, pure>>

\* Second loop, one slide: frames for audio_segments[slide_index]['duration'] are
\* written to the one temporary video (created before the first slide).
SvRenderSlide ==
    /\ sv.pc = "frames"
    /\ LET slide_index == Len(sv.rendered) + 1 IN
       sv' = [sv EXCEPT !.rendered = Append(@, sv.audio_segments[slide_index].duration),
                        !.files = @ \cup {SvTempVideo},
                        !.pc = IF slide_index < num_slides THEN "frames" ELSE "combine"]
    /\ UNCHANGED <<pipeline, parse, content, pure>>

\* _combine_audio_segments for more than one segment (MoviePy writes a new
\* temporary file; without MoviePy or on any exception the first segment's path is
\* returned), else the only segment's path.
SvCombine ==
    /\ sv.pc = "combine"
    /\ \/ /\ Len(sv.audio_segments) > 1
          /\ sv.MOVIEPY_AVAILABLE
          /\ sv' = [sv EXCEPT !.combined_audio = SvCombinedAudio,
                              !.audio_starts = ConcatenatedStarts(sv.audio_segments, 0),
                              !.audio_total = TotalLength(sv.audio_segments),
                              !.files = @ \cup {SvCombinedAudio}, !.pc = "mux"]
       \/ /\ Len(sv.audio_segments) > 1
          /\ sv' = [sv EXCEPT !.combined_audio = sv.audio_segments[1].path,
                              !.audio_starts = FirstOnlyStarts(sv.audio_segments),
                              !.audio_total = sv.audio_segments[1].length, !.pc = "mux"]
       \/ /\ Len(sv.audio_segments) = 1
          /\ sv' = [sv EXCEPT !.combined_audio = sv.audio_segments[1].path,
                              !.audio_starts = FirstOnlyStarts(sv.audio_segments),
                              !.audio_total = sv.audio_segments[1].length, !.pc = "mux"]
    /\ UNCHANGED <<pipeline, parse, content, pure>>

\* if IMAGEIO_FFMPEG_AVAILABLE: look up the binary (RuntimeError when there is none)
\* and start subprocess.run(cmd, check=True) -- no timeout argument;
\* else: return temp_video_path.
SvStartEncoder ==
    /\ sv.pc = "mux"
    /\ sv' = CASE ~IMAGEIO_FFMPEG_AVAILABLE -> [sv EXCEPT !.pc = "returned", !.result = SvTempVideo]
               [] ~ffmpeg_exe_found -> [sv EXCEPT !.pc = "raised", !.err = "ffmpeg_exe_missing"]
               [] OTHER -> [sv EXCEPT !.pc = "encoding"]
    /\ UNCHANGED <<pipeline, parse, content, pure>>

\* The encoder process exits (if it ever does).  Exit code 0: the temporary video,
\* every segment and the combined audio are unlinked and output_path is returned;
\* any other code: CalledProcessError reaches the caller.
SvEncoderExits ==
    /\ sv.pc = "encoding"
    /\ \E rc \in {"zero", "nonzero"} :
        sv' = IF rc = "zero"
              THEN [sv EXCEPT !.pc = "returned", !.result = OutputPath, !.output = "complete",
                              !.output_duration = Shortest(VideoLength(sv.rendered),
                                                           sv.audio_total),
                              !.files = IF Len(sv.audio_segments) > 1
                                        THEN {}
                                        ELSE @ \ {SvTempVideo, SvAudioFile(1)}]
              ELSE [sv EXCEPT !.pc = "raised", !.err = "encoder_failed",
                              !.output = "partial"]
    /\ UNCHANGED <<pipeline, parse, content, pure>>

\* ====================================================== strings
\* A Python str is a sequence of symbols: single characters, and whole fixed
\* phrases or words (which contain no '.', no '-' and no outer blank) as one symbol.
RECURSIVE LStrip(_)
LStrip(str) == IF str # <<>> /\ Head(str) = " " THEN LStrip(Tail(str)) ELSE str

RECURSIVE RStrip(_)
RStrip(str) ==
    IF str # <<>> /\ str[Len(str)] = " " THEN RStrip(SubSeq(str, 1, Len(str) - 1)) ELSE str

\* str.strip()
Strip(str) == RStrip(LStrip(str))

\* str.startswith(prefix)
StartsWith(str, prefix) ==
    Len(str) >= Len(prefix) /\ SubSeq(str, 1, Len(prefix)) = prefix

\* str[k:]
From(str, k) == SubSeq(str, k + 1, Len(str))

\* str.replace(old, new): leftmost non-overlapping occurrences
RECURSIVE Replace(_, _, _)
Replace(str, old, new) ==
    IF str = <<>> THEN <<>>
    ELSE IF StartsWith(str, old) THEN new \o Replace(From(str, Len(old)), old, new)
    ELSE <<Head(str)>> \o Replace(Tail(str), old, new)

\* str.split(sep) for a one-character separator
RECURSIVE SplitAcc(_, _, _)
SplitAcc(str, sep, piece) ==
    IF str = <<>> THEN <<piece>>
    ELSE IF Head(str) = sep THEN <<piece>> \o SplitAcc(Tail(str), sep, <<>>)
    ELSE SplitAcc(Tail(str), sep, Append(piece, Head(str)))

Split(str, sep) == SplitAcc(str, sep, <<>>)

\* sep.join(pieces)
RECURSIVE Join(_, _)
Join(pieces, sep) ==
    IF pieces = <<>> THEN <<>>
    ELSE IF Len(pieces) = 1 THEN pieces[1]
    ELSE pieces[1] \o sep \o Join(Tail(pieces), sep)

LowerSym(c) == CASE c = "A" -> "a" [] c = "T" -> "t" [] c = "S" -> "s"
                 [] c = "However" -> "however" [] OTHER -> c

UpperSym(c) == CASE c = "a" -> "A" [] c = "b" -> "B" [] c = "t" -> "T" [] c = "s" -> "S"
                 [] c = "however" -> "However" [] OTHER -> c

\* str.lower()
Lower(str) == [i \in 1..Len(str) |-> LowerSym(str[i])]

RECURSIVE Strings(_, _)
Strings(alphabet, n) ==
    IF n = 0 THEN {<<>>}
    ELSE LET shorter == Strings(alphabet, n - 1)
         IN shorter \cup {Append(w, c) : w \in shorter, c \in alphabet}

RECURSIVE SelectSyms(_, _)
SelectSyms(str, keep) ==
    IF str = <<>> THEN <<>>
    ELSE IF Head(str) \in keep THEN <<Head(str)>> \o SelectSyms(Tail(str), keep)
    ELSE SelectSyms(Tail(str), keep)

RECURSIVE Concat2(_)
Concat2(strs) == IF strs = <<>> THEN <<>> ELSE Head(strs) \o Concat2(Tail(strs))

\* every variable of the two entry points at rest
PipelineIdle ==
    /\ num_slides = 1
    /\ seconds_per_slide = Sec(6)
    /\ desired_total_seconds = None
    /\ eleven_available = FALSE
    /\ ELEVENLABS_API_KEY = FALSE
    /\ MUTAGEN_AVAILABLE = FALSE
    /\ IMAGEIO_FFMPEG_AVAILABLE = FALSE
    /\ ffmpeg_exe_found = FALSE
    /\ pc = "idle"
    /\ idx = 1
    /\ temp_silent_videos = <<>>
    /\ temp_audios = <<>>
    /\ temp_av_videos = <<>>
    /\ audio_durations = <<>>
    /\ uniform_seconds_per_slide = 0
    /\ rendered = <<>>
    /\ mux_t = <<>>
    /\ mux_rc = <<>>
    /\ concat_rc = "none"
    /\ manifest = <<>>
    /\ output = "absent"
    /\ fs = {}
    /\ created = {}
    /\ unlinked = {}
    /\ tts = NoCall
    /\ tts_calls = 0
    /\ err = "none"
    /\ probed = <<>>
    /\ mux_inputs = <<>>
    /\ sv = SvIdle

\* ====================================================== script parsers
ScriptLines ==
    {<<>>, <<" ">>, <<"#", "#", "#">>, <<"#", "#", "#", " ", "a">>, <<"#", "#", "#", "a">>,
     <<"#", "#", "#", " ", "#", "#", "#">>, <<"-">>, <<"-", " ", "b">>, <<" ", "b", " ">>}

RECURSIVE SeqsUpTo(_, _)
SeqsUpTo(elems, n) ==
    IF n = 0 THEN {<<>>}
    ELSE LET shorter == SeqsUpTo(elems, n - 1)
         IN shorter \cup {Append(w, e) : w \in shorter, e \in elems}

NoSlide == [title |-> <<"<no slide>">>, bullets |-> <<>>]
NoTitle == <<"<None>">>

\* _parse_markdown_script, the loop body for one line: st = [slides, current_slide]
MarkdownLine(st, raw_line) ==
    LET line == Strip(raw_line) IN
    IF line = <<>> THEN st
    ELSE IF StartsWith(line, <<"#", "#", "#">>)
    THEN [slides |-> IF st.current_slide # NoSlide
                     THEN Append(st.slides, st.current_slide) ELSE st.slides,
          current_slide |-> [title |-> Strip(From(line, 3)), bullets |-> <<>>]]
    ELSE IF StartsWith(line, <<"-">>) /\ st.current_slide # NoSlide
    THEN [st EXCEPT !.current_slide.bullets = Append(@, Strip(From(line, 1)))]
    ELSE st

RECURSIVE MarkdownLoop(_, _)
MarkdownLoop(st, lines) ==
    IF lines = <<>> THEN st ELSE MarkdownLoop(MarkdownLine(st, Head(lines)), Tail(lines))

\* _parse_markdown_script
ParseMarkdownScript(lines) ==
    LET st == MarkdownLoop([slides |-> <<>>, current_slide |-> NoSlide], lines)
    IN IF st.current_slide # NoSlide THEN Append(st.slides, st.current_slide) ELSE st.slides

\* truth value of current["title"] or current["bullets"]
ExplainerKeeps(current) ==
    (current.title # NoTitle /\ current.title # <<>>) \/ current.bullets # <<>>

\* _parse_explainer_script, the loop body for one line: st = [slides, current]
ExplainerLine(st, raw_line) ==
    LET line == Strip(raw_line) IN
    IF line = <<>> THEN st
    ELSE IF StartsWith(line, <<"#", "#", "#", " ">>)
    THEN [slides |-> IF ExplainerKeeps(st.current)
                     THEN Append(st.slides, st.current) ELSE st.slides,
          current |-> [title |-> Strip(Replace(line, <<"#", "#", "#">>, <<>>)),
                       bullets |-> <<>>]]
    ELSE IF StartsWith(line, <<"-", " ">>)
    THEN [st EXCEPT !.current.bullets = Append(@, Strip(From(line, 2)))]
    ELSE [st EXCEPT !.current.bullets = Append(@, line)]

RECURSIVE ExplainerLoop(_, _)
ExplainerLoop(st, lines) ==
    IF lines = <<>> THEN st ELSE ExplainerLoop(ExplainerLine(st, Head(lines)), Tail(lines))

\* _parse_explainer_script
ParseExplainerScript(lines) ==
    LET st == ExplainerLoop([slides |-> <<>>,
                             current |-> [title |-> NoTitle, bullets |-> <<>>]], lines)
    IN IF ExplainerKeeps(st.current) THEN Append(st.slides, st.current) ELSE st.slides

InitParse ==
    /\ PipelineIdle
    /\ PureIdle
    /\ content = ContentIdle
    /\ parse \in [pc : {"script"}, script : SeqsUpTo(ScriptLines, MaxLines),
                  markdown : {<<>>}, explainer : {<<>>}]

ParseMarkdown ==
    /\ parse.pc = "script"
    /\ parse' = [parse EXCEPT !.markdown = ParseMarkdownScript(parse.script),
                              !.pc = "markdown_parsed"]
    /\ UNCHANGED <<pipeline, sv, content, pure>>

ParseExplainer ==
    /\ parse.pc = "markdown_parsed"
    /\ parse' = [parse EXCEPT !.explainer = ParseExplainerScript(parse.script),
                              !.pc = "parsed"]
    /\ UNCHANGED <<pipeline, sv, content, pure>>

NextParse == ParseMarkdown \/ ParseExplainer

SpecParse == InitParse /\ [][NextParse]_vars

\* ====================================================== slide content for TTS
DOT == <<".">>
SP == <<" ">>

\* the per-sentence replacements: " however" -> ". However" (the phrases
\* " for example", " therefore", " in addition", " on the other hand" are replaced
\* alike; no input below contains them)
PauseAfterKeyPhrases(sentence) ==
    Replace(sentence, <<" ", "however">>, <<".", " ", "However">>)

RECURSIVE ImprovedSentences(_)
ImprovedSentences(sentences) ==
    IF sentences = <<>> THEN <<>>
    ELSE LET sentence == Strip(Head(sentences))
         IN (IF sentence # <<>> THEN <<PauseAfterKeyPhrases(sentence)>> ELSE <<>>)
            \o ImprovedSentences(Tail(sentences))

\* _improve_content_flow
ImproveContentFlow(text) ==
    LET t1 == Replace(text, <<".", ".", ".">>, DOT)
        t2 == Replace(t1, <<".", ".">>, DOT)
        t3 == Replace(t2, <<"-", "-">>, <<"-">>)
        result == Join(ImprovedSentences(Split(t3, ".")), DOT \o SP)
    IN IF result # <<>> THEN <<UpperSym(result[1])>> \o Tail(result) ELSE result

SubtopicParts(subtopics) ==
    [i \in 1..Len(subtopics) |->
        IF i = Len(subtopics)
        THEN <<"and finally, let me explain">> \o SP \o Lower(subtopics[i])
        ELSE <<"first, let me explain">> \o SP \o Lower(subtopics[i])]

BulletParts(bullets) ==
    [i \in 1..Len(bullets) |->
        IF i = 1 THEN <<"Starting with">> \o SP \o Lower(bullets[i])
        ELSE IF i = Len(bullets) THEN <<"Finally,">> \o SP \o Lower(bullets[i])
        ELSE <<"Next,">> \o SP \o Lower(bullets[i])]

\* _create_enhanced_slide_content
CreateEnhancedSlideContent(slide) ==
    LET content_parts ==
            (IF slide.title # <<>> THEN <<<<"Let me explain">> \o SP \o Lower(slide.title)>>
             ELSE <<>>)
            \o (IF slide.subtopics # <<>>
                THEN <<<<"This covers several key areas:">>>> \o SubtopicParts(slide.subtopics)
                ELSE <<>>)
            \o (IF slide.bullets # <<>>
                THEN <<<<"Let me explain each point in detail:">>>> \o BulletParts(slide.bullets)
                ELSE <<>>)
    IN ImproveContentFlow(IF slide.narration # <<>>
                          THEN slide.narration ELSE Join(content_parts, DOT \o SP))

NarrationAlphabet == {"a", ".", " ", "however"}
BulletTexts == {<<"A">>, <<"b">>, <<".">>}
Titles == {<<>>, <<"T">>}
SubtopicLists == {<<>>, <<<<"S">>>>, <<<<"S">>, <<"s">>>>}

InitContent ==
    /\ PipelineIdle
    /\ PureIdle
    /\ parse = ParseIdle
    /\ content \in [pc : {"slide"},
                    slide : [title : Titles, bullets : SeqsUpTo(BulletTexts, MaxBullets),
                             narration : Strings(NarrationAlphabet, MaxNarration),
                             subtopics : SubtopicLists],
                    text : {<<>>}]

\* slide_content = self._create_enhanced_slide_content(s), the text_to_speech argument
ComposeSlideContent ==
    /\ content.pc = "slide"
    /\ content' = [content EXCEPT !.text = CreateEnhancedSlideContent(content.slide),
                                  !.pc = "composed"]
    /\ UNCHANGED <<pipeline, sv, parse, pure>>

NextContent == ComposeSlideContent

SpecContent == InitContent /\ [][NextContent]_vars

\* ====================================================== word wrap
\* text.replace("\n", " ").split(): the maximal runs of non-blank symbols
RECURSIVE WordsAcc(_, _)
WordsAcc(str, word) ==
    IF str = <<>> THEN (IF word # <<>> THEN <<word>> ELSE <<>>)
    ELSE IF Head(str) \in {" ", "\n"}
         THEN (IF word # <<>> THEN <<word>> ELSE <<>>) \o WordsAcc(Tail(str), <<>>)
         ELSE WordsAcc(Tail(str), Append(word, Head(str)))

Words(text) == WordsAcc(Replace(text, <<"\n">>, SP), <<>>)

\* cv2.getTextSize(candidate, FONT_HERSHEY_SIMPLEX, font_scale, thickness)[0][0]:
\* every glyph, the blank included, advances by font_scale pixels
TextWidth(str, font_scale) == Len(str) * font_scale

\* An overflowing word replaces the current line without the line being kept.
WrapStep_DropsLine(st, w, font_scale, max_width_px) ==
    LET candidate == IF st.current # <<>> THEN Strip(st.current \o SP \o w) ELSE w
    IN IF TextWidth(candidate, font_scale) <= max_width_px
       THEN [st EXCEPT !.current = candidate]
       ELSE [st EXCEPT !.current = w]

\* the loop body of _wrap_text_to_width for one word: st = [lines, current]
WrapStep(st, w, font_scale, max_width_px) ==
    LET candidate == IF st.current # <<>> THEN Strip(st.current \o SP \o w) ELSE w
    IN IF TextWidth(candidate, font_scale) <= max_width_px
       THEN [st EXCEPT !.current = candidate]
       ELSE [lines |-> IF st.current # <<>> THEN Append(st.lines, st.current) ELSE st.lines,
             current |-> w]

RECURSIVE WrapLoop(_, _, _, _)
WrapLoop(st, words, font_scale, max_width_px) ==
    IF words = <<>> THEN st
    ELSE WrapLoop(WrapStep(st, Head(words), font_scale, max_width_px), Tail(words),
                  font_scale, max_width_px)

\* _wrap_text_to_width (thickness does not enter the glyph advance)
WrapTextToWidth(text, font_scale, max_width_px) ==
    LET st == WrapLoop([lines |-> <<>>, current |-> <<>>], Words(text), font_scale,
                       max_width_px)
    IN IF st.current # <<>> THEN Append(st.lines, st.current) ELSE st.lines

InitWrap ==
    /\ PipelineIdle
    /\ parse = ParseIdle
    /\ content = ContentIdle
    /\ kb = KbIdle
    /\ fr = FrIdle
    /\ bg = BgIdle
    /\ sel = SelIdle
    /\ wrap \in [pc : {"text"}, text : Strings({"a", " ", "\n"}, MaxText),
                 font_scale : {1, 2}, max_width_px : {2, 3}, lines : {<<>>}]

WrapText ==
    /\ wrap.pc = "text"
    /\ wrap' = [wrap EXCEPT !.lines = WrapTextToWidth(wrap.text, wrap.font_scale,
                                                      wrap.max_width_px),
                            !.pc = "wrapped"]
    /\ UNCHANGED <<pipeline, sv, parse, content, kb, fr, bg, sel>>

NextWrap == WrapText

SpecWrap == InitWrap /\ [][NextWrap]_vars

\* ====================================================== Ken Burns frame
\* Floats are exact rationals here, a numerator over a denominator.  int(x) of a
\* float product: the floor of the exact value, or one less when the exact value
\* is a whole number that the rounded product may undershoot.
IntOf(num, den) ==
    IF num % den = 0 /\ num \div den >= 1 THEN {num \div den, (num \div den) - 1}
    ELSE {num \div den}

\* alpha = min(1.0, max(0.0, t / max(0.001, total))), t and total in milliseconds
AlphaNum(t, total) == Min(Max(0, t), Max(1, total))
AlphaDen(total) == Max(1, total)

\* base_scale = max(width / w, height / h) as <<numerator, denominator>>
BaseScale(width, height, w, h) ==
    IF width * Max(1, h) >= height * Max(1, w) THEN <<width, Max(1, w)>>
    ELSE <<height, Max(1, h)>>

\* The zoom starts below full cover.
ScaleFactorNum_StartBelowCover(an, ad) ==
    LET start_scale == 95
        end_scale == 115
    IN start_scale * ad + (end_scale - start_scale) * an

\* start_scale + (end_scale - start_scale) * alpha, in hundredths over ad
ScaleFactorNum(an, ad) ==
    LET start_scale == 105
        end_scale == 115
    IN start_scale * ad + (end_scale - start_scale) * an

\* the possible values of int(side * cur_scale)
ResizedSide(side, width, height, w, h, t, total) ==
    LET base == BaseScale(width, height, w, h)
        an == AlphaNum(t, total)
        ad == AlphaDen(total)
    IN IntOf(side * base[1] * ScaleFactorNum(an, ad), base[2] * 100 * ad)

\* int(max(0, r - target) * alpha), then min(max(0, .), max(0, r - target))
Offset(r, target, t, total) ==
    {Min(Max(0, o), Max(0, r - target)) :
        o \in IntOf(Max(0, r - target) * AlphaNum(t, total), AlphaDen(total))}

InitKenBurns ==
    /\ PipelineIdle
    /\ parse = ParseIdle
    /\ content = ContentIdle
    /\ wrap = WrapIdle
    /\ fr = FrIdle
    /\ bg = BgIdle
    /\ sel = SelIdle
    /\ \E width \in {7, 40}, height \in {5, 40}, w \in {1, 3, 64}, h \in {1, 3, 64},
          total \in {0, 4} :
        \E t \in 0..total :
            kb = [pc |-> "called", width |-> width, height |-> height, w |-> w, h |-> h,
                  t |-> t, total |-> total, rw |-> 0, rh |-> 0, x_offset |-> 0,
                  y_offset |-> 0, crop_w |-> 0, crop_h |-> 0, out_w |-> 0, out_h |-> 0]

\* _ken_burns_frame: resize, offsets, crop, and the corrective resize of a crop
\* that came out smaller than the target
KenBurnsFrame ==
    /\ kb.pc = "called"
    /\ \E rw \in ResizedSide(kb.w, kb.width, kb.height, kb.w, kb.h, kb.t, kb.total),
          rh \in ResizedSide(kb.h, kb.width, kb.height, kb.w, kb.h, kb.t, kb.total) :
        \E x_offset \in Offset(rw, kb.width, kb.t, kb.total),
           y_offset \in Offset(rh, kb.height, kb.t, kb.total) :
            kb' = [kb EXCEPT !.rw = rw, !.rh = rh,
                             !.x_offset = x_offset, !.y_offset = y_offset,
                             !.crop_w = Max(0, Min(kb.width, rw - x_offset)),
                             !.crop_h = Max(0, Min(kb.height, rh - y_offset)),
                             !.out_w = kb.width, !.out_h = kb.height,
                             !.pc = "returned"]
    /\ UNCHANGED <<pipeline, sv, parse, content, wrap, fr, bg, sel>>

NextKenBurns == KenBurnsFrame

SpecKenBurns == InitKenBurns /\ [][NextKenBurns]_vars

\* ====================================================== frames of one slide
\* Python's round(): to the nearest whole number, a tie to the even one
RoundHalfEven(num, den) ==
    LET q == num \div den
        r == num % den
    IN IF 2 * r < den THEN q
       ELSE IF 2 * r > den THEN q + 1
       ELSE IF q % 2 = 0 THEN q ELSE q + 1

\* decided slide durations from 240 s upwards in steps of 7/600 s
DurationSamples == {Sec(240) + 7 * k : k \in 0..MaxDurationSteps}
\* config.DEFAULT_FPS and the fps default of generate_slideshow_video
FrameRates == {24, 30}

InitFrames ==
    /\ PipelineIdle
    /\ parse = ParseIdle
    /\ content = ContentIdle
    /\ wrap = WrapIdle
    /\ kb = KbIdle
    /\ bg = BgIdle
    /\ sel = SelIdle
    /\ fr \in [pc : {"decided"}, entry : {"structured", "slideshow"},
               duration : DurationSamples, fps : FrameRates, frames : {0}]

\* the frame loop of one slide in generate_slideshow_video_structured
WriteFramesStructured ==
    /\ fr.pc = "decided"
    /\ fr.entry = "structured"
    /\ fr' = [fr EXCEPT !.frames = FrameCount(fr.duration, fr.fps), !.pc = "written"]
    /\ UNCHANGED <<pipeline, sv, parse, content, wrap, kb, bg, sel>>

\* the frame loop of one slide in generate_slideshow_video
WriteFramesSlideshow ==
    /\ fr.pc = "decided"
    /\ fr.entry = "slideshow"
    /\ fr' = [fr EXCEPT !.frames = FrameCount(fr.duration, fr.fps), !.pc = "written"]
    /\ UNCHANGED <<pipeline, sv, parse, content, wrap, kb, bg, sel>>

NextFrames == WriteFramesStructured \/ WriteFramesSlideshow

SpecFrames == InitFrames /\ [][NextFrames]_vars

\* ====================================================== background provider
\* An image is an array object: a reference into heap, whose entry is the pixel
\* content.  NoImage is the None a provider returns.
NoImage == 0

\* gradient_configs: the number of pre-rendered gradients per category
GradientCount(category) == IF category = "default" THEN 3 ELSE 5
Categories == {"default", "technology"}
RequestedCategories == Categories \cup {"unlisted"}
Topics == {"space", "knitting"}

\* self.notebooklm_backgrounds after __init__: references 1..3 and 4..8
NotebooklmBackgrounds(category) ==
    IF category = "default" THEN <<1, 2, 3>> ELSE <<4, 5, 6, 7, 8>>

InitialHeap ==
    [r \in 1..8 |-> IF r <= 3 THEN <<"gradient", "default", r - 1>>
                    ELSE <<"gradient", "technology", r - 4>>]

\* _calculate_topic_similarity gives a positive score for some fallback key
TopicMatches(topic) == topic = "space"

\* the cache maps a topic to a reference: a sequence of <<topic, reference>>
RECURSIVE Lookup(_, _)
Lookup(cache, topic) ==
    IF cache = <<>> THEN NoImage
    ELSE IF Head(cache)[1] = topic THEN Head(cache)[2]
    ELSE Lookup(Tail(cache), topic)

InitBackground ==
    /\ PipelineIdle
    /\ parse = ParseIdle
    /\ content = ContentIdle
    /\ wrap = WrapIdle
    /\ kb = KbIdle
    /\ fr = FrIdle
    /\ sel = SelIdle
    /\ bg = [pc |-> "ready", heap |-> InitialHeap, topic_backgrounds |-> <<>>,
             handed_out |-> {}, log |-> <<>>]

\* _get_topic_background: the cached array itself on a hit; else the download,
\* which is cached and returned when it succeeds, and None in every other case
GetTopicBackground ==
    /\ bg.pc = "ready"
    /\ Len(bg.log) < MaxProviderCalls
    /\ \E topic \in Topics :
        LET cached == Lookup(bg.topic_backgrounds, topic) IN
        IF cached # NoImage
        THEN bg' = [bg EXCEPT !.handed_out = @ \cup {cached},
                              !.log = Append(@, [provider |-> "topic", key |-> <<topic, 0>>,
                                                 ref |-> cached, image |-> bg.heap[cached]])]
        ELSE \E downloaded \in BOOLEAN :
              IF TopicMatches(topic) /\ downloaded
              THEN LET opencv_image == Len(bg.heap) + 1 IN
                   bg' = [bg EXCEPT !.heap = Append(@, <<"photo", topic>>),
                                    !.topic_backgrounds = Append(@, <<topic, opencv_image>>),
                                    !.handed_out = @ \cup {opencv_image},
                                    !.log = Append(@, [provider |-> "topic",
                                                       key |-> <<topic, 0>>,
                                                       ref |-> opencv_image,
                                                       image |-> <<"photo", topic>>])]
              ELSE bg' = [bg EXCEPT !.log = Append(@, [provider |-> "topic",
                                                       key |-> <<topic, 0>>,
                                                       ref |-> NoImage,
                                                       image |-> <<"none">>])]
    /\ UNCHANGED <<pipeline, sv, parse, content, wrap, kb, fr, sel>>

\* backgrounds[background_index].copy(): a new array with the same pixels
NotebooklmResult(heap, source) ==
    [heap |-> Append(heap, heap[source]), ref |-> Len(heap) + 1]

\* _get_notebooklm_background
GetNotebooklmBackground ==
    /\ bg.pc = "ready"
    /\ Len(bg.log) < MaxProviderCalls
    /\ \E topic_category \in RequestedCategories, slide_index \in 0..MaxSlides :
        LET category == IF topic_category \notin Categories THEN "default"
                        ELSE topic_category
            backgrounds == NotebooklmBackgrounds(category)
            background_index == slide_index % Len(backgrounds)
            result == NotebooklmResult(bg.heap, backgrounds[background_index + 1])
        IN bg' = [bg EXCEPT !.heap = result.heap,
                            !.handed_out = @ \cup {result.ref},
                            !.log = Append(@, [provider |-> "notebooklm",
                                               key |-> <<topic_category, slide_index>>,
                                               ref |-> result.ref,
                                               image |-> result.heap[result.ref]])]
    /\ UNCHANGED <<pipeline, sv, parse, content, wrap, kb, fr, sel>>

\* the caller draws in place on an array it was handed
CallerModifies ==
    /\ bg.pc = "ready"
    /\ \E ref \in bg.handed_out :
        /\ bg.heap[ref] # <<"drawn over">>
        /\ bg' = [bg EXCEPT !.heap[ref] = <<"drawn over">>]
    /\ UNCHANGED <<pipeline, sv, parse, content, wrap, kb, fr, sel>>

NextBackground == GetTopicBackground \/ GetNotebooklmBackground \/ CallerModifies

SpecBackground == InitBackground /\ [][NextBackground]_vars

\* ====================================================== backgrounds of a run
\* What a slide's frames show behind the text: the downloaded topic photo, the
\* static image file testbg.jpeg, a category gradient, or the solid colour.
TopicPhoto == <<"topic photo", "", 0>>
StaticImage == <<"static image", "", 0>>
SolidColour == <<"solid colour", "", 0>>
Gradient(category, i) == <<"gradient", category, i>>

\* _get_notebooklm_background(topic_category, slide_index), as pixels
NotebooklmPixels(topic_category, slide_index) ==
    LET category == IF topic_category \notin Categories THEN "default" ELSE topic_category
    IN Gradient(category, slide_index % GradientCount(category))

\* _draw_clean_slide_text(frame, ..., topic_category): the frame it is given only
\* supplies the size; the picture is the category's gradient for slide_index 0
DrawCleanSlideText(frame, topic_category) == NotebooklmPixels(topic_category, 0)

\* _draw_slide_text_styled: without a style it is _draw_clean_slide_text, with a
\* style the text is drawn over a copy of the frame
DrawSlideTextStyled(frame, style, topic_category) ==
    IF ~style THEN DrawCleanSlideText(frame, topic_category) ELSE frame

InitSelect ==
    /\ PipelineIdle
    /\ parse = ParseIdle
    /\ content = ContentIdle
    /\ wrap = WrapIdle
    /\ kb = KbIdle
    /\ fr = FrIdle
    /\ bg = BgIdle
    /\ \/ sel \in [pc : {"load"}, entry : {"structured"}, num_slides : 1..MaxSlides,
                   topic : BOOLEAN, topic_cached : {FALSE}, static_present : BOOLEAN,
                   default_background : BOOLEAN, style : {FALSE},
                   topic_category : {"default"}, loaded_images : {<<>>},
                   chosen : {<<>>}, written : {<<>>}]
       \/ sel \in [pc : {"render"}, entry : {"slideshow"}, num_slides : 1..MaxSlides,
                   topic : {TRUE}, topic_cached : {FALSE}, static_present : BOOLEAN,
                   default_background : {FALSE}, style : BOOLEAN,
                   topic_category : Categories, loaded_images : {<<>>},
                   chosen : {<<>>}, written : {<<>>}]

\* generate_slideshow_video_structured, loaded_images: the topic photo when a
\* topic is given and its download succeeds, else the static file when present
SelLoadImages ==
    /\ sel.pc = "load"
    /\ \E downloaded \in BOOLEAN :
        LET got_topic == sel.topic /\ downloaded IN
        sel' = [sel EXCEPT !.topic_cached = got_topic,
                           !.loaded_images =
                               IF got_topic THEN <<TopicPhoto>>
                               ELSE IF sel.static_present THEN <<StaticImage>>
                               ELSE <<>>,
                           !.pc = "render"]
    /\ UNCHANGED <<pipeline, sv, parse, content, wrap, kb, fr, bg>>

\* generate_slideshow_video_structured, the frames of slide idx: bg_img, the
\* Ken Burns frame or the solid colour, then _draw_clean_slide_text(frame,
\* title, bullets, topic)
SelRenderStructured ==
    /\ sel.pc = "render"
    /\ sel.entry = "structured"
    /\ \E downloaded \in BOOLEAN :
        LET slide_idx == Len(sel.chosen)
            got_topic == sel.topic /\ (sel.topic_cached \/ downloaded)
            topic_bg == IF got_topic THEN <<TopicPhoto>> ELSE <<>>
            bg_img == IF sel.loaded_images # <<>>
                      THEN <<sel.loaded_images[(slide_idx % Len(sel.loaded_images)) + 1]>>
                      ELSE topic_bg
            frame == IF bg_img # <<>> THEN bg_img[1]
                     ELSE IF sel.default_background THEN StaticImage
                     ELSE SolidColour
        IN sel' = [sel EXCEPT !.topic_cached = got_topic,
                              !.chosen = Append(@, frame),
                              !.written = Append(@, DrawCleanSlideText(frame, "default")),
                              !.pc = IF slide_idx + 1 < sel.num_slides THEN "render"
                                     ELSE "done"]
    /\ UNCHANGED <<pipeline, sv, parse, content, wrap, kb, fr, bg>>

\* generate_slideshow_video, the frames of slide slide_index
SelRenderSlideshow ==
    /\ sel.pc = "render"
    /\ sel.entry = "slideshow"
    /\ LET slide_index == Len(sel.chosen)
           bg_img == NotebooklmPixels(sel.topic_category, slide_index)
       IN sel' = [sel EXCEPT !.chosen = Append(@, bg_img),
                             !.written = Append(@, DrawSlideTextStyled(bg_img, sel.style,
                                                                       sel.topic_category)),
                             !.pc = IF slide_index + 1 < sel.num_slides THEN "render"
                                    ELSE "done"]
    /\ UNCHANGED <<pipeline, sv, parse, content, wrap, kb, fr, bg>>

NextSelect == SelLoadImages \/ SelRenderStructured \/ SelRenderSlideshow

SpecSelect == InitSelect /\ [][NextSelect]_vars

Next ==
    \/ TtsEnter
    \/ ElevenLabs
    \/ GTTS
    \/ Probe
    \/ Decide
    \/ Frames
    \/ Mux
    \/ Concat
    \/ Cleanup
    \/ SvSynthesize
    \/ SvRenderSlide
    \/ SvCombine
    \/ SvStartEncoder
    \/ SvEncoderExits

Spec == Init /\ [][Next]_vars

\* Every step of the program itself is eventually taken; the exit of an encoder
\* process started without a timeout is up to that process.
Program ==
    \/ TtsEnter \/ ElevenLabs \/ GTTS \/ Probe \/ Decide \/ Frames \/ Mux \/ Concat \/ Cleanup
    \/ SvSynthesize \/ SvRenderSlide \/ SvCombine \/ SvStartEncoder

LiveSpec == Init /\ [][Next]_vars /\ WF_vars(Program)

TypeOK ==
    /\ pc \in {"idle", "synthesize", "elevenlabs", "gtts", "probe", "decide", "frames", "mux",
               "concat", "cleanup", "returned", "raised"}
    /\ idx \in 1..num_slides
    /\ fs \subseteq created
    /\ (pc = "raised") = (err # "none")

DivisionExact ==
    pc \notin {"idle", "synthesize", "elevenlabs", "gtts", "probe"} =>
        DesiredTotal(audio_durations) % num_slides = 0

C2_AsStated ==
    (\E i \in 1..Len(mux_rc) : mux_rc[i] \in {"nonzero", "timeout"})
        => /\ concat_rc = "none"
           /\ pc \notin {"cleanup", "returned"}

\* C2 (amended): a mux invocation that times out ends the run in failure with no
\* concatenation and no output; a mux invocation that exits non-zero makes the
\* slide's silent video its segment and the run goes on.
C2_MuxTimeoutFatalNonzeroFallsBack ==
    /\ (\E i \in 1..Len(mux_rc) : mux_rc[i] = "timeout")
        => /\ pc = "raised"
           /\ err = "mux_timeout"
           /\ concat_rc = "none"
           /\ manifest = <<>>
           /\ output = "absent"
    /\ \A i \in 1..Len(temp_av_videos) :
        /\ mux_rc[i] = "nonzero" => temp_av_videos[i] = SilentFile(i)
        /\ mux_rc[i] = "zero" => temp_av_videos[i] = AvFile(i)

C2_Witness ==
    /\ pc = "raised"
    /\ Len(mux_rc) = 2
    /\ mux_rc[1] = "nonzero"
    /\ mux_rc[2] = "timeout"
    /\ temp_av_videos = <<SilentFile(1)>>

MaxOfMinimumAndAudio == [i \in 1..Len(audio_durations) |->
                            Max(seconds_per_slide, audio_durations[i])]

MaxOfUniformAndAudio == [i \in 1..Len(audio_durations) |->
                            Max(uniform_seconds_per_slide, audio_durations[i])]

\* C3 (as stated): on return the decided durations add up to at least the sum of
\* max(seconds_per_slide, recorded audio duration).
C3_AsStated ==
    pc = "returned" => SumSeq(rendered) >= SumSeq(MaxOfMinimumAndAudio)

\* C3 (amended): on return there is one decided duration per slide and they add
\* up to at least the sum of max(uniform_seconds_per_slide, recorded audio
\* duration); seconds_per_slide is not a floor.
C3_TotalCoversUniformAndAudio ==
    pc = "returned" =>
        /\ Len(rendered) = num_slides
        /\ SumSeq(rendered) >= SumSeq(MaxOfUniformAndAudio)
        /\ SumSeq(rendered) >= SumSeq(audio_durations)

C3_Witness ==
    /\ pc = "returned"
    /\ num_slides = 3
    /\ seconds_per_slide = Sec(300)
    /\ SumSeq(rendered) < SumSeq(MaxOfMinimumAndAudio)
    /\ SumSeq(rendered) > SumSeq(audio_durations)

\* C4: the -t limit of every mux command is at least the slide's recorded audio
\* duration.
C4_MuxLimitCoversAudio ==
    \A i \in 1..Len(mux_t) : mux_t[i] >= audio_durations[i]

C4_Witness ==
    \E i \in 1..Len(mux_t) :
        /\ audio_durations[i] > uniform_seconds_per_slide
        /\ mux_t[i] = audio_durations[i]
        /\ mux_rc[i] = "zero"

\* C5: when the run has raised, deletion of every temporary file created so far
\* has been attempted.
C5_CleanupAttemptedOnFailure ==
    pc = "raised" => created \subseteq unlinked

\* C6: when the run has returned, no temporary file of the run is left on disk.
C6_NoTempFilesAfterReturn ==
    pc = "returned" => fs = {}

\* C7: a concatenation that exits non-zero raises and never leads to a return;
\* every run that reaches cleanup or returns had a concatenation with exit code 0.
C7_ConcatFailureRaises ==
    /\ concat_rc = "nonzero" => (pc = "raised" /\ err = "concat_failed")
    /\ pc \in {"cleanup", "returned"} => concat_rc = "zero"

C7_Witness ==
    /\ concat_rc = "nonzero"
    /\ pc = "raised"
    /\ Len(manifest) = num_slides

\* C8: when the fallback provider fails for a slide the run raises, that slide is
\* synthesized once only, and nothing has been rendered, muxed, concatenated or
\* written to the output path.
C8_SynthesisFailureIsFatal ==
    /\ tts.gtts_result = "raise" => (pc = "raised" /\ err = "tts")
    /\ tts_calls <= Len(temp_audios) + 1
    /\ err = "tts" =>
        /\ pc = "raised"
        /\ tts_calls = Len(temp_audios) + 1
        /\ rendered = <<>>
        /\ temp_silent_videos = <<>>
        /\ mux_t = <<>>
        /\ mux_rc = <<>>
        /\ concat_rc = "none"
        /\ output = "absent"

C8_Witness ==
    /\ err = "tts"
    /\ Len(temp_audios) >= 1
    /\ tts.gtts_result = "raise"

\* C9: once the premium provider has raised, the fallback provider is invoked
\* with the same text and the same output path, and if it succeeds the call
\* returns that path and nothing is raised.
C9_PremiumFailureFallsBack ==
    tts.el_result = "raise" =>
        /\ pc \in {"gtts", "probe", "raised"}
        /\ pc # "gtts" =>
            /\ tts.gtts_calls = 1
            /\ tts.gtts_text = tts.el_text
            /\ tts.gtts_text = SlideContent(idx)
            /\ tts.gtts_path = tts.el_path
        /\ tts.gtts_result = "ok" =>
            /\ pc = "probe"
            /\ tts.returned = tts.gtts_path
            /\ err = "none"

C9_Witness ==
    /\ tts.el_result = "raise"
    /\ tts.gtts_result = "ok"
    /\ pc = "probe"
    /\ tts.returned = AudioFile(idx)

\* C10: within one text_to_speech call each provider is attempted at most once,
\* the premium one only with a credential configured, and after the fallback
\* provider has raised no provider is attempted again.
C10_ProvidersAttemptedOnce ==
    /\ [](/\ tts.el_calls <= 1
          /\ tts.gtts_calls <= 1
          /\ tts.el_calls = 1 => (eleven_available /\ ELEVENLABS_API_KEY))
    /\ [][tts.gtts_result = "raise" => (tts' = tts /\ tts_calls' = tts_calls /\ err' = "tts")]_vars

C10_Witness ==
    /\ tts.el_calls = 1
    /\ tts.gtts_calls = 1
    /\ tts.gtts_result = "raise"
    /\ pc = "raised"

\* C11 (as stated): the manifest has one entry per slide and its i-th entry is
\* the segment of slide i muxed with slide i's audio.
C11_AsStated ==
    concat_rc # "none" =>
        /\ Len(manifest) = num_slides
        /\ \A i \in 1..Len(manifest) :
            /\ manifest[i] = AvFile(i)
            /\ mux_inputs[i] = <<SilentFile(i), AudioFile(i)>>

\* C11 (amended): the manifest has one entry per slide, in slide order; the i-th
\* entry is the output of the mux of slide i's silent video with slide i's audio
\* when that mux exited 0, and slide i's silent video itself when it exited
\* non-zero.
C11_ManifestInSlideOrder ==
    /\ \A i \in 1..Len(mux_inputs) : mux_inputs[i] = <<SilentFile(i), AudioFile(i)>>
    /\ concat_rc # "none" =>
        /\ Len(manifest) = num_slides
        /\ \A i \in 1..Len(manifest) :
            manifest[i] = IF mux_rc[i] = "zero" THEN AvFile(i) ELSE SilentFile(i)

C11_Witness ==
    /\ concat_rc = "zero"
    /\ num_slides = 3
    /\ manifest = <<AvFile(1), SilentFile(2), AvFile(3)>>

StepFailed ==
    \/ err # "none"
    \/ \E i \in 1..Len(mux_rc) : mux_rc[i] # "zero"

\* C12 (as stated): once a step has failed (a non-zero mux exit included) nothing
\* further happens in the run.
C12_AsStated == [][StepFailed => vars' = vars]_vars

StepOrder ==
    {<<"synthesize", "elevenlabs">>, <<"synthesize", "gtts">>, <<"elevenlabs", "gtts">>,
     <<"elevenlabs", "probe">>, <<"gtts", "probe">>, <<"gtts", "raised">>,
     <<"probe", "synthesize">>, <<"probe", "decide">>, <<"decide", "frames">>,
     <<"frames", "mux">>, <<"frames", "raised">>, <<"mux", "frames">>,
     <<"mux", "concat">>, <<"mux", "raised">>, <<"concat", "cleanup">>,
     <<"concat", "raised">>, <<"cleanup", "returned">>}

\* C12 (amended): the steps of a run follow the order synthesize, probe (all
\* slides), decide, then per slide frames, mux, record; a step that raises ends the
\* run for good and it never returns, while a non-zero mux exit is not a failure
\* state: the run goes on with the silent video as the segment.
C12_StepsInOrderRaisedAbsorbing ==
    /\ [](/\ Len(temp_audios) = Len(audio_durations)
          /\ Len(rendered) <= Len(audio_durations)
          /\ Len(mux_t) <= Len(rendered)
          /\ Len(rendered) <= Len(mux_t) + 1
          /\ Len(temp_av_videos) <= Len(mux_t)
          /\ pc \in {"concat", "cleanup", "returned"} => Len(temp_av_videos) = num_slides)
    /\ [][pc' # pc => <<pc, pc'>> \in StepOrder]_vars
    /\ [][pc = "raised" => vars' = vars]_vars

C12_Witness ==
    /\ pc = "returned"
    /\ num_slides = 2
    /\ mux_rc = <<"nonzero", "zero">>
    /\ Len(temp_av_videos) = 2

\* C13 (as stated): the silent video and the audio file of a slide whose segment
\* has been recorded are gone from disk.
C13_AsStated ==
    \A i \in 1..Len(temp_av_videos) : SilentFile(i) \notin fs /\ AudioFile(i) \notin fs

\* C13 (amended): no temporary file is deleted before the concatenation has
\* succeeded; the silent videos and audio files of all slides are deleted
\* together in the final cleanup, so they are gone when the run has returned.
C13_IntermediatesDeletedOnlyAtCleanup ==
    /\ pc # "returned" => (unlinked = {} /\ fs = created)
    /\ pc = "returned" =>
        \A i \in 1..num_slides : SilentFile(i) \notin fs /\ AudioFile(i) \notin fs

C13_Witness ==
    /\ pc = "concat"
    /\ num_slides = 2
    /\ {SilentFile(1), AudioFile(1), SilentFile(2), AudioFile(2)} \subseteq fs

EncoderUnavailable == err \in {"ffmpeg_unavailable", "ffmpeg_exe_missing"}

\* C14 (as stated): when the run fails because the encoder is unavailable, no
\* speech has been synthesized, no frame written and nothing is at output_path.
C14_AsStated ==
    EncoderUnavailable =>
        /\ tts_calls = 0
        /\ rendered = <<>>
        /\ output = "absent"

\* C14 (amended): in generate_slideshow_video_structured the unavailable encoder
\* is detected only after speech has been synthesized for every slide and the
\* frames of the first slide have been written; the run then raises before any
\* mux or concatenation and nothing ever exists at output_path.
C14_EncoderCheckedAfterFirstSlide ==
    /\ EncoderUnavailable =>
        /\ pc = "raised"
        /\ tts_calls = num_slides
        /\ Len(rendered) = 1
        /\ SilentFile(1) \in fs
    /\ (pc # "idle" /\ (~IMAGEIO_FFMPEG_AVAILABLE \/ ~ffmpeg_exe_found)) =>
        /\ pc \notin {"concat", "cleanup", "returned"}
        /\ mux_rc = <<>>
        /\ concat_rc = "none"
        /\ output = "absent"

C14_Witness ==
    /\ err = "ffmpeg_unavailable"
    /\ num_slides = 2
    /\ tts_calls = 2
    /\ rendered # <<>>

Terminated == pc \in {"returned", "raised"} \/ sv.pc \in {"returned", "raised"}

\* C15: every call of an entry point eventually returns or raises, whatever the
\* encoder process does.
C15_EntryPointsTerminate == <>Terminated

\* C16: no frame is rendered for any slide before speech synthesis and the
\* duration probe have been done for every slide.
C16_AllAudioBeforeAnyFrame ==
    (rendered # <<>> \/ pc \in {"decide", "frames", "mux"}) =>
        /\ tts_calls = num_slides
        /\ Len(temp_audios) = num_slides
        /\ Len(probed) = num_slides
        /\ Len(audio_durations) = num_slides

C16_Witness ==
    /\ pc = "mux"
    /\ num_slides = 3
    /\ Len(rendered) = 1
    /\ Len(audio_durations) = 3

\* statistics.median: the middle element, or the mean of the two middle elements
TrueMedian(durs) ==
    LET srt == Sorted(durs)
        n == Len(durs)
    IN IF n % 2 = 1 THEN srt[(n \div 2) + 1]
       ELSE (srt[n \div 2] + srt[(n \div 2) + 1]) \div 2

\* C17: with no requested total, the uniform duration is max(median of the
\* recorded durations + 0.5 s, desired_total / slide count), for every slide count.
C17_UniformUsesMedian ==
    (desired_total_seconds = None /\ uniform_seconds_per_slide # 0) =>
        uniform_seconds_per_slide =
            Max(TrueMedian(audio_durations) + Tenths(5),
                DesiredTotal(audio_durations) \div num_slides)

\* C18 (as stated): a slide whose probe gave nothing is recorded with
\* seconds_per_slide, in both entry points, and every probed duration is >= 0.1 s.
C18_AsStated ==
    /\ \A i \in 1..Len(probed) :
        IF probed[i] = None THEN audio_durations[i] = seconds_per_slide
        ELSE probed[i] >= Tenths(1) /\ audio_durations[i] = probed[i]
    /\ sv.pc # "idle" =>
        \A i \in 1..Len(sv.audio_segments) :
            IF sv.audio_segments[i].reading = None
            THEN sv.audio_segments[i].duration = seconds_per_slide
            ELSE sv.audio_segments[i].probed >= Tenths(1)

\* C18 (amended): in generate_slideshow_video_structured a slide whose probe
\* failed or had no reader is recorded with seconds_per_slide and the run goes
\* on; in generate_slideshow_video (_get_audio_duration) a failed probe gives
\* 20 s whatever seconds_per_slide is, and no reader gives max(20 s, size
\* estimate); every duration obtained by probing is at least 0.1 s.
C18_ProbeFallbacks ==
    /\ \A i \in 1..Len(probed) :
        /\ ~MUTAGEN_AVAILABLE => probed[i] = None
        /\ IF probed[i] = None THEN audio_durations[i] = seconds_per_slide
           ELSE probed[i] >= Tenths(1) /\ audio_durations[i] = probed[i]
    /\ Len(probed) >= 1 => err \in {"none", "tts", "ffmpeg_unavailable",
                                    "ffmpeg_exe_missing", "mux_timeout",
                                    "concat_failed", "concat_timeout"}
    /\ sv.pc # "idle" =>
        \A i \in 1..Len(sv.audio_segments) :
            LET seg == sv.audio_segments[i] IN
            /\ seg.probed >= Tenths(1)
            /\ seg.reading = None => (seg.probed = Sec(20) /\ seg.duration = Sec(20))
            /\ (seg.reading # None /\ ~sv.MOVIEPY_AVAILABLE /\ ~MUTAGEN_AVAILABLE)
                => seg.probed >= Sec(20)
            /\ seg.duration = Max(Sec(20), seg.probed)

C18_Witness ==
    /\ sv.pc = "returned"
    /\ seconds_per_slide = Sec(6)
    /\ Len(sv.audio_segments) = 2
    /\ sv.audio_segments[1].reading = None
    /\ sv.audio_segments[1].duration = Sec(20)
    /\ sv.audio_segments[2].reading = 0
    /\ sv.audio_segments[2].probed = Tenths(1)

SlideValid(slide) ==
    (slide.title # NoTitle /\ slide.title # <<>>) \/ slide.bullets # <<>>

\* C19: every slide returned by either script parser has a non-empty title or at
\* least one bullet.
C19_ParsedSlidesValid ==
    /\ \A i \in 1..Len(parse.markdown) : SlideValid(parse.markdown[i])
    /\ \A i \in 1..Len(parse.explainer) : SlideValid(parse.explainer[i])

BulletSyms == {"a", "b"}

\* C20: the synthesizer's text is the (flow-improved) narration when the slide has
\* narration; without narration and with at least one bullet it is non-empty and
\* carries the bullets in their order; it is never empty for a slide that has a
\* title or a bullet.
C20_SpeechTextNeverEmpty ==
    content.pc = "composed" =>
        LET slide == content.slide IN
        /\ slide.narration # <<>> => content.text = ImproveContentFlow(slide.narration)
        /\ (slide.narration = <<>> /\ slide.bullets # <<>>) =>
            /\ content.text # <<>>
            /\ SelectSyms(content.text, BulletSyms)
                 = SelectSyms(Lower(Concat2(slide.bullets)), BulletSyms)
        /\ (slide.title # <<>> \/ slide.bullets # <<>>) => content.text # <<>>

\* C21: no line returned by _wrap_text_to_width is wider than the budget, a
\* single word wider than the budget included.
C21_NoLineExceedsBudget ==
    wrap.pc = "wrapped" =>
        \A i \in 1..Len(wrap.lines) :
            TextWidth(wrap.lines[i], wrap.font_scale) <= wrap.max_width_px

\* C22: the lines of _wrap_text_to_width joined with single blanks are the
\* words of the input joined with single blanks (nothing dropped, duplicated,
\* split or reordered), and no line is empty.
C22_WrapKeepsWordSequence ==
    wrap.pc = "wrapped" =>
        /\ Join(wrap.lines, SP) = Join(Words(wrap.text), SP)
        /\ \A i \in 1..Len(wrap.lines) : wrap.lines[i] # <<>>

C22_Witness ==
    /\ wrap.pc = "wrapped"
    /\ wrap.text = <<"a", "\n", "a", "a", " ">>
    /\ wrap.font_scale = 1
    /\ wrap.max_width_px = 3
    /\ wrap.lines = <<<<"a">>, <<"a", "a">>>>

\* C23: for every target size, source size and time 0 <= t <= total, the crop
\* window of _ken_burns_frame lies inside the scaled source, and the returned
\* frame is the crop itself, exactly height by width.
C23_CropInsideScaledSource ==
    kb.pc = "returned" =>
        /\ kb.x_offset >= 0
        /\ kb.y_offset >= 0
        /\ kb.x_offset + kb.width <= kb.rw
        /\ kb.y_offset + kb.height <= kb.rh
        /\ kb.crop_w = kb.width /\ kb.crop_h = kb.height
        /\ kb.out_w = kb.width /\ kb.out_h = kb.height

C23_Witness ==
    /\ kb.pc = "returned"
    /\ kb.width = 40 /\ kb.height = 5
    /\ kb.w = 3 /\ kb.h = 64
    /\ kb.t = 4 /\ kb.total = 4
    /\ kb.x_offset = kb.rw - kb.width
    /\ kb.x_offset > 0
    /\ kb.y_offset > 0

\* C24: the number of frames written for a slide is round(duration * fps), for
\* every decided duration and frame rate.
C24_FrameCountIsRounded ==
    fr.pc = "written" => fr.frames = RoundHalfEven(fr.duration * fr.fps, 600)

\* C25: two calls of a background provider with the same (topic or category,
\* slide_index) that both return an image return identical pixels, whatever
\* provider calls and caller modifications happen in between.
C25_SameKeySameImage ==
    \A i, j \in 1..Len(bg.log) :
        (/\ bg.log[i].provider = bg.log[j].provider
         /\ bg.log[i].key = bg.log[j].key
         /\ bg.log[i].ref # NoImage
         /\ bg.log[j].ref # NoImage) => bg.log[i].image = bg.log[j].image

\* C26: when the static image file is present, every slide of
\* generate_slideshow_video_structured has it as its background, whatever
\* topic photo or gradient is available.
C26_StaticImagePreferred ==
    (sel.entry = "structured" /\ sel.static_present) =>
        \A i \in 1..Len(sel.written) :
            sel.chosen[i] = StaticImage /\ sel.written[i] = StaticImage

\* C27: in generate_slideshow_video the frames written for slide i show gradient
\* i mod n of the resolved category, so consecutive slides differ.
C27_GradientsAlternate ==
    sel.entry = "slideshow" =>
        /\ \A i \in 1..Len(sel.written) :
            sel.written[i] = Gradient(sel.topic_category,
                                      (i - 1) % GradientCount(sel.topic_category))
        /\ \A i \in 1..(Len(sel.written) - 1) : sel.written[i] # sel.written[i + 1]

RECURSIVE FrameStarts(_, _)
FrameStarts(durations, at) ==
    IF durations = <<>> THEN <<>>
    ELSE <<at>> \o FrameStarts(Tail(durations), at + Head(durations))

\* C28: in generate_slideshow_video the narration of every slide starts in the
\* audio track at the time the slide's frames start, with and without MoviePy.
C28_NarrationStartsWithFrames ==
    sv.pc \in {"mux", "encoding", "returned"} =>
        sv.audio_starts = FrameStarts(sv.rendered, 0)

\* C29: a successful return of an entry point returns the caller's output path
\* and the complete video is at that path.
C29_ReturnsOutputPath ==
    /\ pc = "returned" => output = "complete"
    /\ sv.pc = "returned" => (sv.result = OutputPath /\ sv.output = "complete")

\* C30: in generate_slideshow_video every slide's frames last max(20 s, audio
\* duration), every start_time is the sum of the earlier durations, and the
\* delivered video is not shorter than the sum of the slide durations.
C30_OutputCoversAllSlides ==
    sv.pc # "idle" =>
        /\ \A i \in 1..Len(sv.rendered) :
            sv.rendered[i] = Max(Sec(20), sv.audio_segments[i].probed)
        /\ \A i \in 1..Len(sv.audio_segments) :
            sv.audio_segments[i].start_time = FrameStarts(
                [k \in 1..Len(sv.audio_segments) |-> sv.audio_segments[k].duration], 0)[i]
        /\ (sv.pc = "returned" /\ sv.result = OutputPath) =>
            sv.output_duration >= SumSeq(sv.rendered)
====
